---- MODULE Spec2Model ----
(***************************************************************************)
(* The role model of penman/model.py (class Model).                        *)
(*                                                                         *)
(* A role is a Python string; it is modelled as a sequence of one-char     *)
(* strings, so that endswith('-of'), role[:-3], role + '-of' and the       *)
(* regular expression built by __init__ work on characters as in Python.   *)
(* A Model instance is its configuration (roles, normalizations,           *)
(* reifications, top_role, nodetype_role); the remaining variables record   *)
(* the call in progress or last completed: its name, argument and result.  *)
(***************************************************************************)
EXTENDS Naturals, Sequences, FiniteSets

VARIABLES
    top_role,        \* self.top_role
    nodetype_role,   \* self.nodetype_role
    roles,           \* keys of self.roles (each one a regex alternative)
    normalizations,  \* self.normalizations: function role -> role
    reifications,    \* self.reifications: function role -> Seq(<<label, source, target>>)
    pc,              \* "idle", or "canon_loop" inside _canonicalize_inversion
    op,              \* the method called last
    arg,             \* its argument (a role or a triple)
    cur,             \* local `role` of _canonicalize_inversion while it loops
    result,          \* what the call returned (<<>> when it raised)
    raised,          \* "ModelError" when the call raised it, else "none"
    twice,           \* TRUE when the call was applied to the previous result
    orig,            \* then: the argument of the previous call, else <<>>
    given_reifications   \* the `reifications` argument of __init__

config == <<top_role, nodetype_role, roles, normalizations, reifications>>
vars == <<top_role, nodetype_role, roles, normalizations, reifications,
          pc, op, arg, cur, result, raised, twice, orig, given_reifications>>

----------------------------------------------------------------------------
(* Bounds of the inputs *)

\* roles given to the methods carry 0..MaxSuffix trailing '-of'
MaxSuffix == 3
\* the loop of _canonicalize_inversion is followed while the role is no longer
\* than this; only a role that grows in every pass gets there
MaxRoleLen == 20

----------------------------------------------------------------------------
(* Strings *)

Of == <<"-", "o", "f">>
NL == "\n"

RECURSIVE WithSuffixes(_, _)
WithSuffixes(s, n) == IF n = 0 THEN s ELSE WithSuffixes(s, n - 1) \o Of

\* str.endswith
endswith(s, suffix) ==
    /\ Len(s) >= Len(suffix)
    /\ SubSeq(s, Len(s) - Len(suffix) + 1, Len(s)) = suffix

\* str.startswith
startswith(s, prefix) ==
    /\ Len(s) >= Len(prefix)
    /\ SubSeq(s, 1, Len(prefix)) = prefix

\* role[:-3]
strip3(s) == SubSeq(s, 1, Len(s) - 3)

----------------------------------------------------------------------------
(* The regular expression of __init__: '^(k1|...|kn|top_role|nodetype_role)$' *)
(* The keys are not escaped, so each one is a pattern.  Patterns here are     *)
(* made of literal characters, '.' (any character but a newline) and a        *)
(* postfix '+' (one or more of the preceding atom).                           *)

atom_matches(a, c) == IF a = "." THEN c # NL ELSE a = c

\* `$` without re.MULTILINE: at the end, or just before a final newline
at_dollar(s) == s = <<>> \/ s = <<NL>>

RECURSIVE re_match(_, _)
re_match(p, s) ==
    IF p = <<>> THEN at_dollar(s)
    ELSE IF Len(p) >= 2 /\ p[2] = "+"
    THEN \E n \in 1..Len(s) :
            /\ \A i \in 1..n : atom_matches(p[1], s[i])
            /\ re_match(SubSeq(p, 3, Len(p)), SubSeq(s, n + 1, Len(s)))
    ELSE /\ s # <<>>
         /\ atom_matches(p[1], s[1])
         /\ re_match(Tail(p), Tail(s))

\* the alternatives joined by '|'
role_alternatives == roles \cup {top_role, nodetype_role}

\* variant: the pattern without its closing `$`
_has_role_prefix(role) ==
    \E k \in role_alternatives : \E n \in 0..Len(role) : re_match(k, SubSeq(role, 1, n))

\* Model._has_role: self._role_re.match(role) is not None
_has_role(role) == \E k \in role_alternatives : re_match(k, role)

\* Model.has_role
has_role(role) ==
    \/ _has_role(role)
    \/ (endswith(role, Of) /\ _has_role(strip3(role)))

\* Model.is_role_inverted
is_role_inverted(role) == ~_has_role(role) /\ endswith(role, Of)

\* variant: toggles the suffix without asking whether the role is registered
invert_role_toggle(role) ==
    IF endswith(role, Of) THEN strip3(role) ELSE role \o Of

\* variant: asks has_role where the code asks _has_role
invert_role_has(role) ==
    IF ~has_role(role) /\ endswith(role, Of)
    THEN strip3(role)
    ELSE role \o Of

\* Model.invert_role
invert_role(role) ==
    IF ~_has_role(role) /\ endswith(role, Of)
    THEN strip3(role)
    ELSE role \o Of

\* variant: swaps source and target and leaves the role
invert_keeps_role(triple) == <<triple[3], triple[2], triple[1]>>

\* Model.invert
invert(triple) == <<triple[3], invert_role(triple[2]), triple[1]>>

\* variant: takes every role that ends with '-of' for an inverted one
deinvert_suffix(triple) ==
    IF endswith(triple[2], Of) THEN invert(triple) ELSE triple

\* Model.deinvert
deinvert(triple) ==
    IF is_role_inverted(triple[2]) THEN invert(triple) ELSE triple

\* variant: prefixes ':' without looking
with_colon_always(role) == <<":">> \o role

\* variant: never prefixes ':'
with_colon_missing(role) == role

\* first statement of Model.canonicalize_role: ensure the role starts with ':'
with_colon(role) == IF ~startswith(role, <<":">>) THEN <<":">> \o role ELSE role

\* self.normalizations.get(role, role)
normalized(role) ==
    IF role \in DOMAIN normalizations THEN normalizations[role] ELSE role

\* one pass of the loop body of Model._canonicalize_inversion:
\* inverse = invert(role); role = invert(inverse)
inversion_pass(role) == invert_role(invert_role(role))

\* the loop's exit test: prev == role
loop_exit(prev, role) == prev = role

\* Model.is_reifiable
is_reifiable(triple) == triple[2] \in DOMAIN reifications

\* variant: takes the last rule of the role instead of the first
reified_last(triple) ==
    LET rules == reifications[triple[2]]
        rule == rules[Len(rules)]
    IN << <<triple[1], invert_role(rule[2]), "_">>,
          <<"_", nodetype_role, rule[1]>>,
          <<"_", rule[3], triple[3]>> >>

\* Model.reify, once the role is known to be in the table
reified(triple) ==
    LET rule == Head(reifications[triple[2]])
        label == rule[1]
        source_role == rule[2]
        target_role == rule[3]
        dummy_id == "_"
    IN << <<triple[1], invert_role(source_role), dummy_id>>,
          <<dummy_id, nodetype_role, label>>,
          <<dummy_id, target_role, triple[3]>> >>

\* Model.__init__: reifs[role].append((label, source, target)) for the rules of one role
RECURSIVE rules_for(_, _)
rules_for(list, role) ==
    IF list = <<>> THEN <<>>
    ELSE (IF Head(list)[1] = role
          THEN << <<Head(list)[2], Head(list)[3], Head(list)[4]>> >>
          ELSE <<>>) \o rules_for(Tail(list), role)

\* Model.__init__: self.reifications = dict(reifs)
reification_table(list) ==
    [role \in {list[i][1] : i \in DOMAIN list} |-> rules_for(list, role)]

----------------------------------------------------------------------------
(* Configurations and arguments *)

rA == <<":", "a">>
rB == <<":", "b">>
TOP == <<":", "T", "O", "P">>
NODETYPE == <<":", "i", "n", "s", "t", "a", "n", "c", "e">>

\* candidate keys of `roles`: a plain role, a registered role that ends with
\* '-of', and two patterns
KeyPool == { rA, rA \o Of, <<":", "b", ".", "+">>, <<":", ".">> }

EmptyMap == [r \in {} |-> r]
NormPool ==
    { EmptyMap,
      [r \in {rB} |-> rA],
      [r \in {rA, rB} |-> IF r = rA THEN rB ELSE rA],
      [r \in {rA \o Of} |-> TOP] }

rule1 == <<rA, "L1", rB, rA>>
rule2 == <<rA, "L2", rA \o Of, rB>>
rule3 == <<rB, "L3", rA \o Of, rA>>
ReifPool ==
    { <<>>, <<rule1, rule2>>, <<rule2, rule1>>, <<rule3, rule1, rule2>> }

\* roles given to every method: ':a' and ':b' under 0..MaxSuffix '-of', the two
\* special roles, and two roles that end with a newline
RolePool ==
    { WithSuffixes(b, n) : b \in {rA, rB}, n \in 0..MaxSuffix }
    \cup { TOP, NODETYPE, TOP \o <<NL>>, rA \o <<NL>> }

\* roles without the leading ':', given to canonicalize_role
BareRolePool == { WithSuffixes(<<"a">>, n) : n \in 0..MaxSuffix }

TriplePool == { <<"x", r, "y">> : r \in RolePool }

----------------------------------------------------------------------------
(* The state machine *)

\* Model.__init__, followed by no call yet
Init ==
    /\ top_role = TOP
    /\ nodetype_role = NODETYPE
    /\ roles \in SUBSET KeyPool
    /\ normalizations \in NormPool
    /\ given_reifications \in ReifPool
    /\ reifications = reification_table(given_reifications)
    /\ pc = "idle"
    /\ op = "none"
    /\ arg = <<>>
    /\ cur = <<>>
    /\ result = <<>>
    /\ raised = "none"
    /\ twice = FALSE
    /\ orig = <<>>

\* no method assigns to an attribute of self
Immutable == UNCHANGED <<config, given_reifications>>

\* a call of method o on a returns r
Return(o, a, r, tw, og) ==
    /\ pc' = "idle"
    /\ op' = o
    /\ arg' = a
    /\ result' = r
    /\ raised' = "none"
    /\ cur' = <<>>
    /\ twice' = tw
    /\ orig' = og
    /\ Immutable

HasRole(role) ==
    /\ pc = "idle"
    /\ Return("has_role", role, has_role(role), FALSE, <<>>)

IsRoleInverted(role) ==
    /\ pc = "idle"
    /\ Return("is_role_inverted", role, is_role_inverted(role), FALSE, <<>>)

InvertRole(role) ==
    /\ pc = "idle"
    /\ Return("invert_role", role, invert_role(role), FALSE, <<>>)

\* invert_role(invert_role(r)): the method applied to its own result
InvertRoleAgain ==
    /\ pc = "idle"
    /\ op = "invert_role"
    /\ ~twice
    /\ Return("invert_role", result, invert_role(result), TRUE, arg)

Invert(triple) ==
    /\ pc = "idle"
    /\ Return("invert", triple, invert(triple), FALSE, <<>>)

\* invert(invert(t))
InvertAgain ==
    /\ pc = "idle"
    /\ op = "invert"
    /\ ~twice
    /\ Return("invert", result, invert(result), TRUE, arg)

Deinvert(triple) ==
    /\ pc = "idle"
    /\ Return("deinvert", triple, deinvert(triple), FALSE, <<>>)

\* what canonicalize_role / canonicalize return once the inversions are settled
canon_result(o, a, role) ==
    IF o = "canonicalize"
    THEN <<a[1], normalized(role), a[3]>>
    ELSE normalized(role)

\* entry of canonicalize_role up to the loop of _canonicalize_inversion
BeginCanon(o, a, role, tw, og) ==
    LET r0 == with_colon(role) IN
    IF _has_role(r0)
    THEN Return(o, a, canon_result(o, a, r0), tw, og)
    ELSE /\ pc' = "canon_loop"
         /\ op' = o
         /\ arg' = a
         /\ cur' = r0
         /\ result' = <<>>
         /\ raised' = "none"
         /\ twice' = tw
         /\ orig' = og
         /\ Immutable

CanonicalizeRole(role) ==
    /\ pc = "idle"
    /\ BeginCanon("canonicalize_role", role, role, FALSE, <<>>)

\* canonicalize_role(canonicalize_role(r))
CanonicalizeRoleAgain ==
    /\ pc = "idle"
    /\ op = "canonicalize_role"
    /\ ~twice
    /\ BeginCanon("canonicalize_role", result, result, TRUE, arg)

Canonicalize(triple) ==
    /\ pc = "idle"
    /\ BeginCanon("canonicalize", triple, triple[2], FALSE, <<>>)

\* one iteration of `while True` in _canonicalize_inversion; on the break,
\* the rest of canonicalize_role (and of canonicalize)
CanonLoopStep ==
    /\ pc = "canon_loop"
    /\ Len(cur) <= MaxRoleLen
    /\ LET prev == cur
           role == inversion_pass(cur)
       IN IF loop_exit(prev, role)
          THEN Return(op, arg, canon_result(op, arg, role), twice, orig)
          ELSE /\ cur' = role
               /\ UNCHANGED <<pc, op, arg, result, raised, twice, orig>>
               /\ Immutable

IsReifiable(triple) ==
    /\ pc = "idle"
    /\ Return("is_reifiable", triple, is_reifiable(triple), FALSE, <<>>)

\* raise ModelError(...)
Raise(o, a) ==
    /\ pc' = "idle"
    /\ op' = o
    /\ arg' = a
    /\ result' = <<>>
    /\ raised' = "ModelError"
    /\ cur' = <<>>
    /\ twice' = FALSE
    /\ orig' = <<>>

\* variant: the table is still a defaultdict, and the failed lookup adds the role
Reify_defaultdict(triple) ==
    /\ pc = "idle"
    /\ IF triple[2] \notin DOMAIN reifications
       THEN /\ Raise("reify", triple)
            /\ reifications' =
                  [r \in DOMAIN reifications \cup {triple[2]} |->
                      IF r \in DOMAIN reifications THEN reifications[r] ELSE <<>>]
            /\ UNCHANGED <<top_role, nodetype_role, roles, normalizations,
                           given_reifications>>
       ELSE Return("reify", triple, reified(triple), FALSE, <<>>)

Reify(triple) ==
    /\ pc = "idle"
    /\ IF triple[2] \notin DOMAIN reifications
       THEN Raise("reify", triple) /\ Immutable
       ELSE Return("reify", triple, reified(triple), FALSE, <<>>)

Next ==
    \/ \E role \in RolePool : HasRole(role)
    \/ \E role \in RolePool : IsRoleInverted(role)
    \/ \E role \in RolePool : InvertRole(role)
    \/ InvertRoleAgain
    \/ \E triple \in TriplePool : Invert(triple)
    \/ InvertAgain
    \/ \E triple \in TriplePool : Deinvert(triple)
    \/ \E role \in RolePool \cup BareRolePool : CanonicalizeRole(role)
    \/ CanonicalizeRoleAgain
    \/ \E triple \in TriplePool : Canonicalize(triple)
    \/ CanonLoopStep
    \/ \E triple \in TriplePool : IsReifiable(triple)
    \/ \E triple \in TriplePool : Reify(triple)

Spec == Init /\ [][Next]_vars

\* a started call runs on: the interpreter executes the next iteration
FairSpec == Spec /\ WF_vars(CanonLoopStep)

----------------------------------------------------------------------------
(* Properties *)

\* a call has returned (it is not inside the loop, and it did not raise)
returned(o) == op = o /\ pc = "idle" /\ raised = "none"

\* the role r comes back from two inversions
round_trips(r) ==
    IF is_role_inverted(r)
    THEN ~is_role_inverted(strip3(r))
    ELSE ~_has_role(r \o Of)

\* C1, as claimed: invert(invert(t)) == t for every triple t.
InvertIsInvolution ==
    (returned("invert") /\ twice) => result = orig

\* C1, amended: invert(invert(t)) restores source and target of every triple,
\* and restores the role exactly when the role is inverted and is no longer
\* inverted with one '-of' stripped, or is not inverted and role + '-of' is
\* not an exactly known role; so invert(invert(t)) == t exactly then.
InvertTwice ==
    (returned("invert") /\ twice) =>
        /\ result[1] = orig[1]
        /\ result[3] = orig[3]
        /\ (result[2] = orig[2]) <=> round_trips(orig[2])
        /\ (result = orig) <=> round_trips(orig[2])

\* an inverted role was stripped and suffixed again, and the triple came back
InvertTwiceWitness ==
    /\ returned("invert") /\ twice
    /\ is_role_inverted(orig[2])
    /\ arg = <<orig[3], strip3(orig[2]), orig[1]>>
    /\ result = orig

\* every normalization target starts with ':', is exactly known and is not
\* itself normalized
norm_targets_settled ==
    \A k \in DOMAIN normalizations :
        /\ startswith(normalizations[k], <<":">>)
        /\ _has_role(normalizations[k])
        /\ normalizations[k] \notin DOMAIN normalizations

\* C2, as claimed: for every role r known to the registry,
\* canonicalize_role(canonicalize_role(r)) == canonicalize_role(r).
CanonicalizeRoleIdempotent ==
    (returned("canonicalize_role") /\ twice /\ _has_role(orig)) => result = arg

\* C2, amended: when every normalization target starts with ':', is exactly
\* known and is not itself a key of the normalization mapping (in particular
\* when the mapping is empty), canonicalize_role(canonicalize_role(r)) ==
\* canonicalize_role(r) for every role r on which both calls return.
CanonicalizeRoleIdempotentSettled ==
    (returned("canonicalize_role") /\ twice /\ norm_targets_settled) => result = arg

\* ':b' was normalized to ':a', and ':a' canonicalizes to itself
CanonicalizeRoleIdempotentWitness ==
    /\ returned("canonicalize_role") /\ twice
    /\ norm_targets_settled
    /\ orig = rB
    /\ arg = rA
    /\ result = rA

\* C3: deinvert(t) == invert(t) when is_role_inverted(role of t), otherwise
\* deinvert(t) == t; a triple whose role is exactly known and ends with
\* '-of' is returned unchanged.
DeinvertOnlyInverted ==
    returned("deinvert") =>
        /\ is_role_inverted(arg[2]) => result = invert(arg)
        /\ ~is_role_inverted(arg[2]) => result = arg
        /\ (_has_role(arg[2]) /\ endswith(arg[2], Of)) => result = arg

\* a registered role that ends with '-of' was left alone, and an unregistered
\* one would not have been
DeinvertWitness ==
    /\ returned("deinvert")
    /\ _has_role(arg[2])
    /\ endswith(arg[2], Of)
    /\ result = arg
    /\ is_role_inverted(arg[2] \o Of)

\* the rules given to __init__ for a role, in the order given
registered_for(role) ==
    { i \in DOMAIN given_reifications : given_reifications[i][1] = role }

\* C4: for a role with a reification rule, reify((x, r, y)) is exactly
\* (x, invert_role(source_role), '_'), ('_', nodetype_role, label),
\* ('_', target_role, y) of the first rule registered for r.
ReifyUsesFirstRule ==
    (returned("reify") /\ registered_for(arg[2]) # {}) =>
        LET first == CHOOSE i \in registered_for(arg[2]) :
                        \A j \in registered_for(arg[2]) : i <= j
            rule == given_reifications[first]
        IN /\ Len(result) = 3
           /\ result[1] = <<arg[1], invert_role(rule[3]), "_">>
           /\ result[2] = <<"_", nodetype_role, rule[2]>>
           /\ result[3] = <<"_", rule[4], arg[3]>>

\* a role with two rules was reified, and the source role of its first rule
\* is a registered role ending with '-of', so that inverting it appends
ReifyWitness ==
    /\ returned("reify")
    /\ Cardinality(registered_for(arg[2])) = 2
    /\ result[2][3] = "L2"
    /\ result[1][2] = rA \o Of \o Of

\* C5: reify raises ModelError exactly when the role of the triple is not an
\* exact key of the reification table, which is when is_reifiable is false;
\* the failed call changes nothing in the model.
ReifyFailure ==
    /\ [](op = "reify" =>
            /\ (raised = "ModelError") <=> registered_for(arg[2]) = {}
            /\ (raised = "ModelError") <=> ~is_reifiable(arg))
    /\ [](returned("is_reifiable") => (result <=> registered_for(arg[2]) # {}))
    /\ [][raised' = "ModelError" => config' = config]_vars

\* reify raised on the inverted spelling of a role that has a rule
ReifyFailureWitness ==
    /\ op = "reify"
    /\ raised = "ModelError"
    /\ arg[2] = rA \o Of
    /\ registered_for(rA) # {}

\* membership by string equality
listed(r) == r \in role_alternatives

accepted_by_equality(r) ==
    listed(r) \/ (endswith(r, Of) /\ listed(strip3(r)))

\* the characters the pattern language above gives a meaning to
Meta == {".", "+"}
literal_keys == \A k \in role_alternatives : \A i \in DOMAIN k : k[i] \notin Meta
has_newline(r) == \E i \in DOMAIN r : r[i] = NL

even_suffix_difference(a, b) ==
    \E n \in 0..(MaxRoleLen \div 3) :
        a = WithSuffixes(b, 2 * n) \/ b = WithSuffixes(a, 2 * n)

\* no role between base and base + 3 * '-of' is exactly known
chain_unknown(base) == \A n \in 0..3 : ~_has_role(WithSuffixes(base, n))

\* C7: with an empty normalization mapping the result c of
\* canonicalize_role(r) starts with ':', is not inverted twice over, and
\* differs from ':'-prefixed r by an even number of trailing '-of' (two
\* stacked suffixes over an unknown role collapse to none, three to one);
\* canonicalize(triple) leaves source and target in place.
CanonicalForm ==
    /\ (returned("canonicalize_role") /\ normalizations = EmptyMap) =>
          /\ startswith(result, <<":">>)
          /\ is_role_inverted(result) => ~is_role_inverted(strip3(result))
          /\ even_suffix_difference(with_colon(arg), result)
          /\ \A base \in {rA, rB} : chain_unknown(base) =>
                /\ with_colon(arg) = WithSuffixes(base, 2) => result = base
                /\ with_colon(arg) = WithSuffixes(base, 3) => result = base \o Of
    /\ returned("canonicalize") =>
          /\ result[1] = arg[1]
          /\ result[3] = arg[3]

\* a role given without ':' and with three stacked suffixes came back with
\* ':' and one suffix
CanonicalFormWitness ==
    /\ returned("canonicalize_role")
    /\ normalizations = EmptyMap
    /\ arg = WithSuffixes(<<"a">>, 3)
    /\ result = rA \o Of
    /\ is_role_inverted(result)

\* C8, as claimed: the loop of _canonicalize_inversion always reaches its
\* exit, so every call of canonicalize_role returns.
CanonicalizeTerminates == (pc = "canon_loop") ~> (pc = "idle")

\* C9: has_role(r) implies has_role(invert_role(r)); so inverting a triple
\* whose role the model accepts gives a triple whose role the model accepts.
InvertKeepsLegal ==
    /\ (returned("invert_role") /\ has_role(arg)) => has_role(result)
    /\ (returned("invert") /\ has_role(arg[2])) => has_role(result[2])

\* a role accepted only through its stripped suffix was inverted to the
\* exactly known role
InvertKeepsLegalWitness ==
    /\ returned("invert_role")
    /\ has_role(arg)
    /\ ~_has_role(arg)
    /\ _has_role(result)

\* C10: invert_role(invert_role(r)) == r exactly when r is inverted and r
\* with one '-of' stripped is not, or r is not inverted and r + '-of' is not
\* exactly known; otherwise the result is r with two '-of' removed (r
\* inverted) or two '-of' added (r not inverted).
InvertRoleTwice ==
    (returned("invert_role") /\ twice) =>
        /\ (result = orig) <=> round_trips(orig)
        /\ (~round_trips(orig) /\ is_role_inverted(orig)) =>
              orig = result \o Of \o Of
        /\ (~round_trips(orig) /\ ~is_role_inverted(orig)) =>
              result = orig \o Of \o Of

\* two inversions added two suffixes to a role that is not inverted
InvertRoleTwiceWitness ==
    /\ returned("invert_role") /\ twice
    /\ ~is_role_inverted(orig)
    /\ result = orig \o Of \o Of

====
